---- MODULE Spec2Model ----
(***************************************************************************)
(* graspnetAPI/grasp.py: the Grasp / GraspGroup / RectGrasp /              *)
(* RectGraspGroup containers, as a state machine over a heap of numpy      *)
(* arrays.                                                                 *)
(*                                                                         *)
(* A numpy array is a buffer of rows; an ndarray object is a window        *)
(* (buf, lo, hi) on a buffer.  Basic indexing yields a window on the same  *)
(* buffer (a view); copy.deepcopy, np.concatenate, np.delete and integer-  *)
(* array indexing yield a new buffer.  Floats are fixed-point integers in  *)
(* thousandths (0.99 is 990).  A row of the source with column c (0-based) *)
(* is element c+1 of a TLA+ sequence.                                      *)
(*                                                                         *)
(* The client program holds four names: arr (an ndarray it built itself),  *)
(* item (the last Grasp or RectGrasp it obtained), group (a GraspGroup or  *)
(* a RectGraspGroup) and res (the last group returned to it by a slice, a  *)
(* sample or a conversion).                                                *)
(***************************************************************************)
EXTENDS Integers, Sequences, FiniteSets, TLC

VARIABLES heap, ref, last, added

vars == <<heap, ref, last, added>>

GRASP_ARRAY_LEN == 17
RECT_GRASP_ARRAY_LEN == 7

\* Bounds of the model: the rows of a group the inputs are drawn from, the
\* rows a group of the state machine Spec grows to, the ints of a remove.
MaxLen == 3
MaxRows == 2
MaxRemove == 2

Slots == {"arr", "item", "group", "res"}
BufIds == 1..4
SlotBuf(s) == CASE s = "arr" -> 1 [] s = "item" -> 2 [] s = "group" -> 3 [] s = "res" -> 4

\* ------------------------------------------------------------------ rows
\* [score, width, height, depth, rotation(9), translation(3), object_id]
GraspRow(score, r20, oid) ==
    <<score, 80, 20, 20, 0, 0, 0, 0, 0, 0, r20, 0, 0, 100, 200, 500, oid>>

\* The rows of the state machine Spec: two scores, closed under the caller's
\* write of 0 into a score cell.
Pool == { GraspRow(900, 999, 0), GraspRow(0, 999, 0) }

\* The rows of the single-operation specifications: a tie on the score;
\* rotation[2,0] above, at and below the 0.99 threshold; object ids 0, 1, 2
\* and the -1 sentinel.
RichPool ==
    { GraspRow(900, 999, 0), GraspRow(500, 995, 1000),
      GraspRow(500, 990, -1000), GraspRow(100, 500, 2000) }

\* [center_x, center_y, open_x, open_y, height, score, object_id]
RectRow(cx, score, oid) == <<cx, 240, cx + 10, 240, 4, score, oid>>

RectPool == { RectRow(320, 700, 0), RectRow(100, 300, 1000), RectRow(200, 300, -1000) }

\* ------------------------------------------------------------------ heap
NoRef == [cls |-> "None", buf |-> 0, lo |-> 1, hi |-> 0]

\* An array-valued expression: a window on a live buffer, or a new array.
View(b, lo, hi) == [view |-> TRUE, buf |-> b, lo |-> lo, hi |-> hi, tbl |-> <<>>]
New(tbl) == [view |-> FALSE, buf |-> 0, lo |-> 1, hi |-> Len(tbl), tbl |-> tbl]

Store == [heap |-> heap, ref |-> ref]

Data(st, a) == IF a.view THEN SubSeq(st.heap[a.buf], a.lo, a.hi) ELSE a.tbl

\* The ndarray an instance's attribute names (grasp_array, grasp_group_array, ...).
Attr(st, s) == View(st.ref[s].buf, st.ref[s].lo, st.ref[s].hi)

Tbl(st, s) == IF st.ref[s].cls = "None" THEN <<>> ELSE Data(st, Attr(st, s))

OthersBufs(st, s) == { st.ref[t].buf : t \in Slots \ {s} }

\* The allocator: any buffer no other name refers to.
Fresh(st, s) ==
    IF SlotBuf(s) \notin OthersBufs(st, s)
    THEN SlotBuf(s)
    ELSE CHOOSE b \in BufIds : b \notin OthersBufs(st, s)

\* s = cls(...) whose array attribute is a.
Bind(st, s, cls, a) ==
    IF a.view
    THEN [heap |-> st.heap,
          ref |-> [st.ref EXCEPT ![s] = [cls |-> cls, buf |-> a.buf, lo |-> a.lo, hi |-> a.hi]]]
    ELSE LET b == Fresh(st, s) IN
         [heap |-> [st.heap EXCEPT ![b] = a.tbl],
          ref |-> [st.ref EXCEPT ![s] = [cls |-> cls, buf |-> b, lo |-> 1, hi |-> Len(a.tbl)]]]

\* Buffers no name refers to are reclaimed.
Collect(st) ==
    [b \in BufIds |-> IF \E s \in Slots : st.ref[s].buf = b THEN st.heap[b] ELSE <<>>]

Commit(st) == heap' = Collect(st) /\ ref' = st.ref

Done(op, exc, arg) == last' = [op |-> op, exc |-> exc, arg |-> arg]

\* ------------------------------------------------------------------ numpy
copy_deepcopy(st, a) == New(Data(st, a))

\* a[i] for an int i already checked to be in range: a view of one row.
index_int(st, a, i) ==
    IF a.view THEN View(a.buf, a.lo + i, a.lo + i)
    ELSE New(SubSeq(a.tbl, i + 1, i + 1))

\* Python's slice.indices for a[start:stop] on n rows.
Clamp(x, n) == IF x < 0 THEN (IF x + n < 0 THEN 0 ELSE x + n) ELSE (IF x > n THEN n ELSE x)

\* a[start:stop]: a view.
index_slice(st, a, start, stop) ==
    LET n == a.hi - a.lo + 1
        s0 == Clamp(start, n)
        s1 == IF Clamp(stop, n) < s0 THEN s0 ELSE Clamp(stop, n)
    IN IF a.view THEN View(a.buf, a.lo + s0, a.lo + s1 - 1)
       ELSE New(SubSeq(a.tbl, s0 + 1, s1))

\* np.concatenate((a, b)) of two 2-D arrays.
np_concatenate(st, a, b) == New(Data(st, a) \o Data(st, b))

\* x.reshape((-1, width)) of one row or of a table of such rows: same buffer.
reshape_rows(a) == a

\* np.concatenate refuses a zero-dimensional operand ("zero-dimensional arrays
\* cannot be concatenated"): parts is the sequence of the operands' ndim.
concatenate_accepts(parts) == \A k \in 1..Len(parts) : parts[k] >= 1

\* ------------------------------------------------------------------ Grasp
Ok(st) == [exc |-> "none", st |-> st]
Raise(st, e) == [exc |-> e, st |-> st]

\* Grasp_init keeping the caller's array instead of a copy of it.
Grasp_init_shared(st, args) ==
    IF args.n = 1
    THEN IF args.kind = "ndarray"
         THEN Ok(Bind(st, "item", "Grasp", args.a))
         ELSE Raise(st, "TypeError")
    ELSE IF args.n = 7
         THEN IF concatenate_accepts(<<1, 1, 1, args.oid_ndim>>)
              THEN Ok(Bind(st, "item", "Grasp", New(<<args.row>>)))
              ELSE Raise(st, "ValueError")
         ELSE Raise(st, "ValueError")

\* Grasp(*args) bound to item.  args.n is len(args); for one argument
\* args.kind is its type and args.a the array; for seven, args.row holds the
\* fields laid out in order and args.oid_ndim is the ndim of
\* np.array((object_id)): 0 for a scalar id, 1 for a one-element sequence.
Grasp_init(st, args) ==
    IF args.n = 1
    THEN IF args.kind = "ndarray"
         THEN Ok(Bind(st, "item", "Grasp", copy_deepcopy(st, args.a)))
         ELSE Raise(st, "TypeError")
    ELSE IF args.n = 7
         THEN IF concatenate_accepts(<<1, 1, 1, args.oid_ndim>>)
              THEN Ok(Bind(st, "item", "Grasp", New(<<args.row>>)))
              ELSE Raise(st, "ValueError")
         ELSE Raise(st, "ValueError")

FromArray(a) == [n |-> 1, kind |-> "ndarray", a |-> a, row |-> <<>>, oid_ndim |-> 0]

GraspArgs(pool, counts) ==
    { FromArray(Attr(Store, "arr")) }
    \cup { [n |-> 1, kind |-> "list", a |-> New(<<>>), row |-> <<>>, oid_ndim |-> 0] }
    \cup { [n |-> 7, kind |-> "fields", a |-> New(<<>>), row |-> r, oid_ndim |-> d] :
             r \in pool, d \in {0, 1} }
    \cup { [n |-> c, kind |-> "other", a |-> New(<<>>), row |-> <<>>, oid_ndim |-> 0] :
             c \in counts }

\* ------------------------------------------------------------------ GraspGroup
\* GraspGroup(*args) bound to self.  args is the tuple of arguments, each
\* [cls |-> "Grasp"] (the instance item) or [cls |-> "list", rows |-> ...] (a
\* Python list of Grasp instances with those rows).  The loop runs over the
\* tuple args itself, so its one element must have a grasp_array attribute.
GraspGroup_init(st, self, args) ==
    IF Len(args) = 0
    THEN Ok(Bind(st, self, "GraspGroup", New(<<>>)))
    ELSE IF Len(args) = 1
         THEN IF args[1].cls = "Grasp"
              THEN Ok(Bind(st, self, "GraspGroup",
                           np_concatenate(st, New(<<>>), reshape_rows(Attr(st, "item")))))
              ELSE Raise(st, "AttributeError")
         ELSE Raise(st, "ValueError")

Lists(pool, n) == UNION { [1..k -> pool] : k \in 0..n }

GroupArgs(lists) ==
    { <<>> }
    \cup { <<[cls |-> "Grasp", rows |-> <<>>]>> }
    \cup { <<[cls |-> "list", rows |-> l]>> : l \in lists }
    \cup { <<[cls |-> "Grasp", rows |-> <<>>], [cls |-> "Grasp", rows |-> <<>>]>> }

\* a[i] on n rows raises IndexError outside -n..n-1.
InRange(i, n) == -n <= i /\ i < n
Norm(i, n) == IF i < 0 THEN i + n ELSE i

\* GraspGroup_getitem handing out the slice itself, not a copy of it.
GraspGroup_getitem_view(st, self, index) ==
    LET a == Attr(st, self)
        n == a.hi - a.lo + 1
    IN IF index.type = "int"
       THEN IF InRange(index.i, n)
            THEN Grasp_init(st, FromArray(index_int(st, a, Norm(index.i, n))))
            ELSE Raise(st, "IndexError")
       ELSE IF index.type = "slice"
            THEN Ok(Bind(st, "res", "GraspGroup", index_slice(st, a, index.start, index.stop)))
            ELSE Raise(st, "TypeError")

\* self[index]: index is [type |-> "int", i], [type |-> "slice", start, stop]
\* or anything else.  A Grasp goes to item, a group to res.
GraspGroup_getitem(st, self, index) ==
    LET a == Attr(st, self)
        n == a.hi - a.lo + 1
    IN IF index.type = "int"
       THEN IF InRange(index.i, n)
            THEN Grasp_init(st, FromArray(index_int(st, a, Norm(index.i, n))))
            ELSE Raise(st, "IndexError")
       ELSE IF index.type = "slice"
            THEN Ok(Bind(st, "res", "GraspGroup",
                         copy_deepcopy(st, index_slice(st, a, index.start, index.stop))))
            ELSE Raise(st, "TypeError")

IntIndex(i) == [type |-> "int", i |-> i, start |-> 0, stop |-> 0]
SliceIndex(a, b) == [type |-> "slice", i |-> 0, start |-> a, stop |-> b]
OtherIndex == [type |-> "other", i |-> 0, start |-> 0, stop |-> 0]

\* GraspGroup_add with the operands of the concatenation swapped.
GraspGroup_add_front(st, self) ==
    Ok(Bind(st, self, "GraspGroup",
            np_concatenate(st, reshape_rows(Attr(st, "item")), Attr(st, self))))

\* self.add(grasp), grasp being item.
GraspGroup_add(st, self) ==
    Ok(Bind(st, self, "GraspGroup",
            np_concatenate(st, Attr(st, self), reshape_rows(Attr(st, "item")))))

Take(t, p) == [k \in 1..Len(p) |-> t[p[k]]]

\* np.delete(a, index, axis = 0) for a list of ints raises IndexError when
\* one of them is out of bounds for the axis.
np_delete_raises(st, a, index) ==
    \E i \in index : ~InRange(i, Len(Data(st, a)))

\* np_delete taking a negative int for no row at all.
np_delete_literal(st, a, index) ==
    LET t == Data(st, a)
        n == Len(t)
        gone == { i + 1 : i \in index }
    IN New(Take(t, SelectSeq([k \in 1..n |-> k], LAMBDA k : k \notin gone)))

\* Otherwise it returns a new array without the rows named (a negative int
\* counts from the end), the others in their order.
np_delete(st, a, index) ==
    LET t == Data(st, a)
        n == Len(t)
        gone == { Norm(i, n) + 1 : i \in index }
    IN New(Take(t, SelectSeq([k \in 1..n |-> k], LAMBDA k : k \notin gone)))

\* self.remove(index)
GraspGroup_remove(st, self, index) ==
    IF np_delete_raises(st, Attr(st, self), index)
    THEN Raise(st, "IndexError")
    ELSE Ok(Bind(st, self, "GraspGroup", np_delete(st, Attr(st, self), index)))

Perms(n) == { p \in [1..n -> 1..n] : \A i, j \in 1..n : p[i] = p[j] => i = j }

\* np.argsort(score): the orders that sort score ascending; the order of
\* equal scores is the sort kind's business.
np_argsort(score) ==
    { p \in Perms(Len(score)) :
        \A k \in 1..(Len(score) - 1) : score[p[k]] <= score[p[k + 1]] }

Column(t, c) == [k \in 1..Len(t) |-> t[k][c + 1]]
Reversed(p) == [k \in 1..Len(p) |-> p[Len(p) + 1 - k]]
\* self.sort_by_score(reverse), index being the result of np.argsort.
GraspGroup_sort_by_score(st, self, reverse, index) ==
    LET t == Tbl(st, self)
        order == IF ~reverse THEN Reversed(index) ELSE index
    IN Ok(Bind(st, self, "GraspGroup", New(Take(t, order))))

\* GraspGroup_random_sample shuffling the group's own array.
GraspGroup_random_sample_in_place(st, self, numGrasp, shuffle) ==
    LET t == Tbl(st, self)
    IN IF numGrasp > Len(t)
       THEN Raise(st, "ValueError")
       ELSE LET st1 == Bind(st, self, "GraspGroup", New(Take(t, shuffle)))
            IN Ok(Bind(st1, "res", "GraspGroup",
                       copy_deepcopy(st1, index_slice(st1, Attr(st1, self), 0, numGrasp))))

\* self.random_sample(numGrasp) bound to res, shuffle being the permutation
\* np.random.shuffle draws.
GraspGroup_random_sample(st, self, numGrasp, shuffle) ==
    LET t == Tbl(st, self)
    IN IF numGrasp > Len(t)
       THEN Raise(st, "ValueError")
       ELSE LET shuffled == New(Take(copy_deepcopy(st, Attr(st, self)).tbl, shuffle))
            IN Ok(Bind(st, "res", "GraspGroup",
                       copy_deepcopy(st, index_slice(st, shuffled, 0, numGrasp))))

\* ------------------------------------------------------------------ conversion
\* astype(np.int32) of a float: truncation toward zero.
astype_int32(x) == IF x >= 0 THEN (x \div 1000) * 1000 ELSE -(((-x) \div 1000) * 1000)

\* Row accessors of GraspGroup, per row.
score_of(row) == row[1]
width_of(row) == row[2]
rotation_of(row, i, j) == row[5 + 3 * i + j]
translation_of(row) == SubSeq(row, 14, 16)
object_id_of(row) == astype_int32(row[17])

MASK_THRESHOLD == 990

\* mask with >= for >.
mask_at_least(row) == rotation_of(row, 2, 0) >= MASK_THRESHOLD

\* mask = (rotations[:, 2, 0] > 0.99)
mask(row) == rotation_of(row, 2, 0) > MASK_THRESHOLD

\* utils.get_batch_key_points and utils.batch_key_points_2_tuple: the key
\* points of a gripper projected with the camera's intrinsics and re-encoded
\* as [center_x, center_y, open_x, open_y, height, score, object_id].  The
\* geometry is kept only as far as the two cameras giving different pixels.
Focal(camera) == IF camera = "realsense" THEN 927 ELSE 631

get_batch_key_points(translation, width) ==
    [center |-> translation,
     open |-> <<translation[1] + width \div 2, translation[2], translation[3]>>]

Pixel(p, camera) == <<(Focal(camera) * p[1]) \div p[3], (Focal(camera) * p[2]) \div p[3]>>

batch_key_points_2_tuple(k_points, score, object_id, camera) ==
    LET c == Pixel(k_points.center, camera)
        o == Pixel(k_points.open, camera)
    IN <<c[1], c[2], o[1], o[2], (o[1] - c[1]) \div 2, score, object_id>>

\* self.to_rect_grasp_group(camera) bound to res.
GraspGroup_to_rect_grasp_group(st, self, camera) ==
    LET kept == SelectSeq(Tbl(st, self), mask)
        rect(row) == batch_key_points_2_tuple(
                         get_batch_key_points(translation_of(row), width_of(row)),
                         score_of(row), object_id_of(row), camera)
    IN Ok(Bind(st, "res", "RectGraspGroup", New([k \in 1..Len(kept) |-> rect(kept[k])])))

Cameras == {"realsense", "kinect"}

\* ------------------------------------------------------------------ RectGrasp
\* RectGrasp(*args) bound to item; args as for Grasp, the seven scalars of
\* args.row going through np.array(args).
RectGrasp_init(st, args) ==
    IF args.n = 1
    THEN IF args.kind = "ndarray"
         THEN Ok(Bind(st, "item", "RectGrasp", copy_deepcopy(st, args.a)))
         ELSE Raise(st, "TypeError")
    ELSE IF args.n = RECT_GRASP_ARRAY_LEN
         THEN Ok(Bind(st, "item", "RectGrasp", New(<<args.row>>)))
         ELSE Raise(st, "ValueError")

\* self.to_grasp(camera_intrinsics, depths, depth_method): the body is pass.
RectGrasp_to_grasp(st) == [exc |-> "none", st |-> st, ret |-> "None"]

\* ------------------------------------------------------------------ RectGraspGroup
\* RectGraspGroup(*args) bound to self.  The loop runs over the tuple args and
\* calls reshape on its element: an ndarray (the caller's arr) has one, a
\* list or a RectGrasp has not.
RectGraspGroup_init(st, self, args) ==
    IF Len(args) = 0
    THEN Ok(Bind(st, self, "RectGraspGroup", New(<<>>)))
    ELSE IF Len(args) = 1
         THEN IF args[1].cls = "ndarray"
              THEN Ok(Bind(st, self, "RectGraspGroup",
                           np_concatenate(st, New(<<>>), reshape_rows(Attr(st, "arr")))))
              ELSE Raise(st, "AttributeError")
         ELSE Raise(st, "ValueError")

RectGroupArgs(lists) ==
    { <<>> }
    \cup { <<[cls |-> c, rows |-> <<>>]>> : c \in {"ndarray", "RectGrasp"} }
    \cup { <<[cls |-> "list", rows |-> l]>> : l \in lists }
    \cup { <<[cls |-> "RectGrasp", rows |-> <<>>], [cls |-> "RectGrasp", rows |-> <<>>]>> }

RectGraspGroup_getitem(st, self, index) ==
    LET a == Attr(st, self)
        n == a.hi - a.lo + 1
    IN IF index.type = "int"
       THEN IF InRange(index.i, n)
            THEN RectGrasp_init(st, FromArray(index_int(st, a, Norm(index.i, n))))
            ELSE Raise(st, "IndexError")
       ELSE IF index.type = "slice"
            THEN Ok(Bind(st, "res", "RectGraspGroup",
                         copy_deepcopy(st, index_slice(st, a, index.start, index.stop))))
            ELSE Raise(st, "TypeError")

RectGraspGroup_add(st, self) ==
    Ok(Bind(st, self, "RectGraspGroup",
            np_concatenate(st, Attr(st, self), reshape_rows(Attr(st, "item")))))

RectGraspGroup_remove(st, self, index) ==
    IF np_delete_raises(st, Attr(st, self), index)
    THEN Raise(st, "IndexError")
    ELSE Ok(Bind(st, self, "RectGraspGroup", np_delete(st, Attr(st, self), index)))

RectGraspGroup_sort_by_score(st, self, reverse, index) ==
    LET t == Tbl(st, self)
        order == IF ~reverse THEN Reversed(index) ELSE index
    IN Ok(Bind(st, self, "RectGraspGroup", New(Take(t, order))))

RectGraspGroup_random_sample(st, self, numGrasp, shuffle) ==
    LET t == Tbl(st, self)
    IN IF numGrasp > Len(t)
       THEN Raise(st, "ValueError")
       ELSE LET shuffled == New(Take(copy_deepcopy(st, Attr(st, self)).tbl, shuffle))
            IN Ok(Bind(st, "res", "RectGraspGroup",
                       copy_deepcopy(st, index_slice(st, shuffled, 0, numGrasp))))

\* self.to_grasp_group(camera_intrinsics, depths, depth_method): the body is pass.
RectGraspGroup_to_grasp_group(st) == [exc |-> "none", st |-> st, ret |-> "None"]

\* ------------------------------------------------------------------ actions
Step(r, op, arg) ==
    /\ Commit(r.st)
    /\ Done(op, r.exc, arg)

TblNow(s) == Tbl(Store, s)
TblNext(s) == Tbl([heap |-> heap', ref |-> ref'], s)
IsGroup(s) == ref[s].cls = "GraspGroup"
Tainted == [pure |-> FALSE, rows |-> <<>>]
Taint(self) == added' = IF self = "group" THEN Tainted ELSE added

\* arr = np.array(row): the caller builds a row of its own.
NewArray(r) ==
    /\ Commit(Bind(Store, "arr", "ndarray", New(<<r>>)))
    /\ Done("np.array", "none", <<>>)
    /\ UNCHANGED added

\* x[i, c] = v on the array of the Grasp or GraspGroup named s, or on arr
\* itself: an in-place write into the buffer.
Write(s, i, c, v) ==
    /\ ref[s].cls \in {"ndarray", "Grasp", "GraspGroup"}
    /\ i \in 1..Len(TblNow(s))
    /\ heap' = [heap EXCEPT ![ref[s].buf][ref[s].lo + i - 1][c + 1] = v]
    /\ UNCHANGED ref
    /\ Done("write", "none", s)
    /\ Taint(s)

\* item = Grasp(*args)
GraspInit(args) ==
    /\ args.kind = "ndarray" => ref["arr"].cls = "ndarray"
    /\ Step(Grasp_init(Store, args), "Grasp", args)
    /\ UNCHANGED added

\* group = GraspGroup(*args)
GraspGroupInit(args) ==
    /\ (\E k \in 1..Len(args) : args[k].cls = "Grasp") => ref["item"].cls = "Grasp"
    /\ LET r == GraspGroup_init(Store, "group", args)
       IN /\ Step(r, "GraspGroup", args)
          /\ added' = IF r.exc # "none" THEN added
                      ELSE IF Len(args) = 0 THEN [pure |-> TRUE, rows |-> <<>>]
                      ELSE Tainted

\* item = group[i] or res = group[a:b]
GetItem(index) ==
    /\ IsGroup("group")
    /\ Step(GraspGroup_getitem(Store, "group", index), "getitem", index)
    /\ UNCHANGED added

\* self.add(item)
Add(self) ==
    /\ IsGroup(self)
    /\ ref["item"].cls = "Grasp"
    /\ Step(GraspGroup_add(Store, self), "add", self)
    /\ added' = IF self = "group" /\ added.pure
                THEN [pure |-> TRUE, rows |-> Append(added.rows, TblNow("item")[1])]
                ELSE added

\* self.remove(index)
Remove(self, index) ==
    /\ IsGroup(self)
    /\ LET r == GraspGroup_remove(Store, self, index)
       IN /\ Step(r, "remove", [self |-> self, index |-> index])
          /\ IF r.exc = "none" THEN Taint(self) ELSE UNCHANGED added

\* self.sort_by_score(reverse)
Sort(self, reverse) ==
    /\ IsGroup(self)
    /\ \E index \in np_argsort(Column(TblNow(self), 0)) :
          Step(GraspGroup_sort_by_score(Store, self, reverse, index), "sort_by_score",
               [self |-> self, reverse |-> reverse])
    /\ Taint(self)

\* res = group.random_sample(numGrasp)
RandomSample(numGrasp) ==
    /\ IsGroup("group")
    /\ \E shuffle \in Perms(Len(TblNow("group"))) :
          Step(GraspGroup_random_sample(Store, "group", numGrasp, shuffle),
               "random_sample", numGrasp)
    /\ UNCHANGED added

\* res = group.to_rect_grasp_group(camera)
ToRectGraspGroup(camera) ==
    /\ IsGroup("group")
    /\ Step(GraspGroup_to_rect_grasp_group(Store, "group", camera), "to_rect_grasp_group", camera)
    /\ UNCHANGED added

\* ------------------------------------------------------------------ Spec
\* The state machine: a client that starts from group = GraspGroup() and
\* calls anything in any order.
Init ==
    /\ heap = [b \in BufIds |-> <<>>]
    /\ ref = [s \in Slots |->
                IF s = "group"
                THEN [cls |-> "GraspGroup", buf |-> SlotBuf("group"), lo |-> 1, hi |-> 0]
                ELSE NoRef]
    /\ last = [op |-> "GraspGroup", exc |-> "none", arg |-> <<>>]
    /\ added = [pure |-> TRUE, rows |-> <<>>]

\* The arguments the client of Spec passes.
SomeIndices ==
    { IntIndex(0), IntIndex(-1), IntIndex(MaxRows),
      SliceIndex(0, 1), SliceIndex(1, MaxRows), SliceIndex(-2, MaxRows + 1), OtherIndex }
SomeIndexLists == { {}, {0}, {-1}, {MaxRows}, {0, 1} }
SomeNumGrasps == { -1, 1, MaxRows, MaxRows + 1 }
Room(self) == Len(TblNow(self)) < MaxRows

Next ==
    \/ \E r \in Pool : NewArray(r)
    \/ \E s \in Slots, i \in 1..MaxRows : Write(s, i, 0, 0)
    \/ \E args \in GraspArgs(Pool, {2}) : GraspInit(args)
    \/ \E args \in GroupArgs(Lists(Pool, 1)) : GraspGroupInit(args)
    \/ \E index \in SomeIndices : GetItem(index)
    \/ \E self \in {"group", "res"} : Room(self) /\ Add(self)
    \/ \E self \in {"group", "res"}, index \in SomeIndexLists : Remove(self, index)
    \/ \E self \in {"group", "res"}, reverse \in BOOLEAN : Sort(self, reverse)
    \/ \E numGrasp \in SomeNumGrasps : RandomSample(numGrasp)
    \/ \E camera \in Cameras : ToRectGraspGroup(camera)

Spec == Init /\ [][Next]_vars

\* ------------------------------------------------------------------ SpecOps
\* One call on a group drawn from the inputs; when the call was a slice, one
\* mutation of either group after it.
InitOps ==
    \E t \in Lists(RichPool, MaxLen), r \in RichPool :
        /\ heap = [b \in BufIds |->
                     IF b = SlotBuf("group") THEN t
                     ELSE IF b \in {SlotBuf("arr"), SlotBuf("item")} THEN <<r>>
                     ELSE <<>>]
        /\ ref = [s \in Slots |->
                    IF s = "group"
                    THEN [cls |-> "GraspGroup", buf |-> SlotBuf(s), lo |-> 1, hi |-> Len(t)]
                    ELSE IF s = "arr" THEN [cls |-> "ndarray", buf |-> SlotBuf(s), lo |-> 1, hi |-> 1]
                    ELSE IF s = "item" THEN [cls |-> "Grasp", buf |-> SlotBuf(s), lo |-> 1, hi |-> 1]
                    ELSE NoRef]
        /\ last = [op |-> "start", exc |-> "none", arg |-> <<>>]
        /\ added = Tainted

Start == last.op = "start"
Returned == last.op = "getitem" /\ last.exc = "none" /\ last.arg.type = "slice"

Indices ==
    { IntIndex(i) : i \in -(MaxLen + 1)..MaxLen }
    \cup { SliceIndex(a, b) : a, b \in -1..(MaxLen + 1) }
    \cup { OtherIndex }

IndexLists == { S \in SUBSET (-(MaxLen + 1)..MaxLen) : Cardinality(S) <= MaxRemove }

NextOps ==
    \/ Start /\ \E args \in GraspArgs(RichPool, {0, 2, 8}) : GraspInit(args)
    \/ Start /\ \E args \in GroupArgs(Lists(RichPool, MaxLen)) : GraspGroupInit(args)
    \/ Start /\ \E index \in Indices : GetItem(index)
    \/ Start /\ Add("group")
    \/ Start /\ \E index \in IndexLists : Remove("group", index)
    \/ Start /\ \E reverse \in BOOLEAN : Sort("group", reverse)
    \/ Start /\ \E numGrasp \in -1..(MaxLen + 1) : RandomSample(numGrasp)
    \/ Start /\ \E camera \in Cameras : ToRectGraspGroup(camera)
    \/ Returned /\ \E s \in {"group", "res"}, i \in 1..MaxLen : Write(s, i, 0, 0)
    \/ Returned /\ \E self \in {"group", "res"} : Add(self)
    \/ Returned /\ \E self \in {"group", "res"}, index \in SomeIndexLists : Remove(self, index)
    \/ Returned /\ \E self \in {"group", "res"}, reverse \in BOOLEAN : Sort(self, reverse)

SpecOps == InitOps /\ [][NextOps]_vars

\* ------------------------------------------------------------------ SpecAdd
\* A client that builds Grasps and adds them to a group it constructed empty.
NextAdd ==
    \/ \E r \in RichPool : NewArray(r)
    \/ \E args \in GraspArgs(RichPool, {}) : GraspInit(args)
    \/ GraspGroupInit(<<>>)
    \/ Len(TblNow("group")) < MaxLen /\ Add("group")

SpecAdd == Init /\ [][NextAdd]_vars

\* ------------------------------------------------------------------ SpecRect
\* The same single calls on the rectangle classes.
IsRectGroup(s) == ref[s].cls = "RectGraspGroup"

\* item = RectGrasp(*args)
RectGraspInit(args) ==
    /\ Step(RectGrasp_init(Store, args), "RectGrasp", args)
    /\ UNCHANGED added

\* group = RectGraspGroup(*args)
RectGraspGroupInit(args) ==
    /\ Step(RectGraspGroup_init(Store, "group", args), "RectGraspGroup", args)
    /\ UNCHANGED added

\* item = group[i] or res = group[a:b]
RectGetItem(index) ==
    /\ IsRectGroup("group")
    /\ Step(RectGraspGroup_getitem(Store, "group", index), "getitem", index)
    /\ UNCHANGED added

\* self.add(item)
RectAdd(self) ==
    /\ IsRectGroup(self)
    /\ ref["item"].cls = "RectGrasp"
    /\ Step(RectGraspGroup_add(Store, self), "add", self)
    /\ UNCHANGED added

\* self.remove(index)
RectRemove(self, index) ==
    /\ IsRectGroup(self)
    /\ Step(RectGraspGroup_remove(Store, self, index), "remove", [self |-> self, index |-> index])
    /\ UNCHANGED added

\* self.sort_by_score(reverse)
RectSort(self, reverse) ==
    /\ IsRectGroup(self)
    /\ \E index \in np_argsort(Column(TblNow(self), 5)) :
          Step(RectGraspGroup_sort_by_score(Store, self, reverse, index), "sort_by_score",
               [self |-> self, reverse |-> reverse])
    /\ UNCHANGED added

\* res = group.random_sample(numGrasp)
RectRandomSample(numGrasp) ==
    /\ IsRectGroup("group")
    /\ \E shuffle \in Perms(Len(TblNow("group"))) :
          Step(RectGraspGroup_random_sample(Store, "group", numGrasp, shuffle),
               "random_sample", numGrasp)
    /\ UNCHANGED added

\* x = item.to_grasp(...)
ToGrasp ==
    /\ ref["item"].cls = "RectGrasp"
    /\ LET r == RectGrasp_to_grasp(Store) IN Step(r, "to_grasp", r.ret)
    /\ UNCHANGED added

\* x = group.to_grasp_group(...)
ToGraspGroup ==
    /\ IsRectGroup("group")
    /\ LET r == RectGraspGroup_to_grasp_group(Store) IN Step(r, "to_grasp_group", r.ret)
    /\ UNCHANGED added

InitRect ==
    \E t \in Lists(RectPool, MaxLen), r \in RectPool :
        /\ heap = [b \in BufIds |->
                     IF b = SlotBuf("group") THEN t
                     ELSE IF b \in {SlotBuf("arr"), SlotBuf("item")} THEN <<r>>
                     ELSE <<>>]
        /\ ref = [s \in Slots |->
                    IF s = "group"
                    THEN [cls |-> "RectGraspGroup", buf |-> SlotBuf(s), lo |-> 1, hi |-> Len(t)]
                    ELSE IF s = "arr" THEN [cls |-> "ndarray", buf |-> SlotBuf(s), lo |-> 1, hi |-> 1]
                    ELSE IF s = "item" THEN [cls |-> "RectGrasp", buf |-> SlotBuf(s), lo |-> 1, hi |-> 1]
                    ELSE NoRef]
        /\ last = [op |-> "start", exc |-> "none", arg |-> <<>>]
        /\ added = Tainted

NextRect ==
    \/ Start /\ \E args \in GraspArgs(RectPool, {0, 2, 8}) : RectGraspInit(args)
    \/ Start /\ \E args \in RectGroupArgs(Lists(RectPool, MaxLen)) : RectGraspGroupInit(args)
    \/ Start /\ \E index \in Indices : RectGetItem(index)
    \/ Start /\ RectAdd("group")
    \/ Start /\ \E index \in IndexLists : RectRemove("group", index)
    \/ Start /\ \E reverse \in BOOLEAN : RectSort("group", reverse)
    \/ Start /\ \E numGrasp \in -1..(MaxLen + 1) : RectRandomSample(numGrasp)
    \/ Start /\ ToGrasp
    \/ Start /\ ToGraspGroup

SpecRect == InitRect /\ [][NextRect]_vars

\* ------------------------------------------------------------------ properties
ScoreCol(s) == IF ref[s].cls = "RectGraspGroup" THEN 5 ELSE 0
Scores(s) == Column(TblNow(s), ScoreCol(s))
Descending(x) == \A k \in 1..(Len(x) - 1) : x[k] >= x[k + 1]
Ascending(x) == \A k \in 1..(Len(x) - 1) : x[k] <= x[k + 1]

\* C1: after sort_by_score(reverse=True) the scores are descending, after
\* sort_by_score(reverse=False) ascending.
C1_SortOrder ==
    last.op = "sort_by_score" /\ last.exc = "none" =>
        IF last.arg.reverse
        THEN Descending(Scores(last.arg.self))
        ELSE Ascending(Scores(last.arg.self))

\* C2: GraspGroup(list_of_grasps) succeeds and holds the rows of the list's
\* Grasps in input order (RectGraspGroup likewise).
C2_FromList ==
    /\ last.op \in {"GraspGroup", "RectGraspGroup"}
    /\ Len(last.arg) = 1
    /\ last.arg[1].cls = "list"
    => /\ last.exc = "none"
       /\ ref["group"].cls = last.op
       /\ TblNow("group") = last.arg[1].rows

\* C3: to_grasp and to_grasp_group report "not implemented"; they never
\* return normally.
C3_NotImplemented ==
    last.op \in {"to_grasp", "to_grasp_group"} => last.exc = "NotImplementedError"

\* C10: a Grasp or RectGrasp constructor succeeds with one ndarray argument
\* or with seven field arguments, and fails with an invalid-argument error,
\* leaving nothing behind, otherwise.
C10_Construction ==
    [][ last'.op \in {"Grasp", "RectGrasp"} =>
          IF (last'.arg.n = 1 /\ last'.arg.kind = "ndarray") \/ last'.arg.n = 7
          THEN /\ last'.exc = "none"
               /\ ref'["item"].cls = last'.op
               /\ TblNext("item") = IF last'.arg.n = 1 THEN TblNow("arr") ELSE <<last'.arg.row>>
          ELSE /\ last'.exc \in {"TypeError", "ValueError"}
               /\ UNCHANGED <<heap, ref>> ]_vars

\* The times row occurs in table t.
Count(t, row) == Cardinality({ k \in 1..Len(t) : t[k] = row })
SubMultiset(t, u) == \A k \in 1..Len(t) : Count(t, t[k]) <= Count(u, t[k])

SampleReturned(n) ==
    /\ last'.exc = "none"
    /\ ref'["res"].cls = ref["group"].cls
    /\ Len(TblNext("res")) = n
    /\ SubMultiset(TblNext("res"), TblNow("group"))
    /\ TblNext("group") = TblNow("group")

SampleRefused ==
    /\ last'.exc = "ValueError"
    /\ UNCHANGED <<heap, ref>>

\* C4 as stated: for any n <= length random_sample(n) returns a new group of
\* exactly n rows, a sub-multiset of the group's rows, the group unchanged;
\* for n > length it fails with a value error, the group unchanged.
C4_AnyN ==
    [][ last'.op = "random_sample" =>
          IF last'.arg <= Len(TblNow("group"))
          THEN SampleReturned(last'.arg)
          ELSE SampleRefused ]_vars

\* C4 amended: the same for 0 <= n <= length; a negative n is not refused
\* and returns length + n rows (none when that is negative).
C4_Sample ==
    [][ last'.op = "random_sample" =>
          LET n == last'.arg
              len == Len(TblNow("group"))
          IN IF n > len THEN SampleRefused
             ELSE IF n >= 0 THEN SampleReturned(n)
             ELSE SampleReturned(IF len + n > 0 THEN len + n ELSE 0) ]_vars

C4_Witness ==
    /\ last.op = "random_sample" /\ last.exc = "none" /\ last.arg = 2
    /\ Len(TblNow("group")) = 3
    /\ Len(TblNow("res")) = 2
    /\ TblNow("res") # SubSeq(TblNow("group"), 1, 2)

\* The group a mutation acted on.
Mutations == {"write", "add", "remove", "sort_by_score"}
Target(l) == IF l.op \in {"remove", "sort_by_score"} THEN l.arg.self ELSE l.arg

\* C5: g[a:b] within bounds is a new group of the rows a..b-1 of g in order,
\* and a later write, add, remove or sort on either group leaves the other's
\* table as it was.
C5_Slice ==
    [][ /\ ( /\ Start
             /\ last'.op = "getitem"
             /\ last'.arg.type = "slice"
             /\ 0 <= last'.arg.start
             /\ last'.arg.start <= last'.arg.stop
             /\ last'.arg.stop <= Len(TblNow("group")) )
           => /\ last'.exc = "none"
              /\ ref'["res"].cls = ref["group"].cls
              /\ Len(TblNext("res")) = last'.arg.stop - last'.arg.start
              /\ \A j \in 1..Len(TblNext("res")) :
                    TblNext("res")[j] = TblNow("group")[last'.arg.start + j]
              /\ TblNext("group") = TblNow("group")
        /\ (Returned /\ last'.op \in Mutations)
           => \A t \in {"group", "res"} \ {Target(last')} : TblNext(t) = TblNow(t) ]_vars

C5_Witness ==
    /\ last.op = "write" /\ last.arg = "res"
    /\ Len(TblNow("group")) = 3
    /\ Len(TblNow("res")) = 2
    /\ TblNow("res")[2][1] = 0
    /\ \A k \in 1..3 : TblNow("group")[k][1] # 0

\* C6: after k add calls on a group constructed empty, the group has k rows
\* and row i is the row of the i-th Grasp added.
C6_Adds == added.pure => TblNow("group") = added.rows

C6_Witness ==
    /\ last.op = "add"
    /\ added.pure
    /\ Len(TblNow("group")) = 3
    /\ TblNow("group")[1] # TblNow("group")[2]
    /\ TblNow("group")[2] # TblNow("group")[3]

\* The positions of the rows whose rotation[2,0] is above 0.99.
Surviving(t) == { k \in 1..Len(t) : t[k][11] > 990 }
Before(P, k) == Cardinality({ p \in P : p < k })
Truncated(x) == IF x >= 0 THEN x \div 1000 ELSE -((-x) \div 1000)

\* C7: to_rect_grasp_group keeps exactly the rows with rotation[2,0] > 0.99:
\* as many output rows as surviving rows, the j-th with the score and object
\* id of the j-th surviving row, the source table unchanged.
C7_Filter ==
    [][ last'.op = "to_rect_grasp_group" =>
          LET t == TblNow("group")
              out == TblNext("res")
          IN /\ last'.exc = "none"
             /\ ref'["res"].cls = "RectGraspGroup"
             /\ Len(out) = Cardinality(Surviving(t))
             /\ \A k \in Surviving(t) :
                   LET j == Before(Surviving(t), k) + 1
                   IN /\ Len(out[j]) = 7
                      /\ out[j][6] = t[k][1]
                      /\ Truncated(out[j][7]) = Truncated(t[k][17])
             /\ TblNext("group") = t ]_vars

C7_Witness ==
    /\ last.op = "to_rect_grasp_group"
    /\ Len(TblNow("group")) = 3
    /\ \E k \in 1..3 : TblNow("group")[k][11] = 990
    /\ Len(TblNow("res")) = 2
    /\ TblNow("res")[1][7] # TblNow("res")[2][7]

\* The rows the ints of index name in a table of n rows, a negative int
\* counting from the end.
Named(index, n) == { IF i < 0 THEN n + i + 1 ELSE i + 1 : i \in index }
AllInRange(index, n) == \A i \in index : -n <= i /\ i < n

\* The table of self after the call holds the rows of t outside gone, in
\* their order.
Removed(self, t, gone) ==
    \A k \in (1..Len(t)) \ gone : TblNext(self)[k - Before(gone, k)] = t[k]

\* C8 as stated: remove(indices) with every index in range leaves the rows
\* at the other positions in their order, as many fewer as there are
\* distinct indices; with an index out of range it fails with an
\* out-of-bounds error and leaves the table as it was.
C8_DistinctIndices ==
    [][ last'.op = "remove" =>
          LET self == last'.arg.self
              index == last'.arg.index
              t == TblNow(self)
          IN IF AllInRange(index, Len(t))
             THEN /\ last'.exc = "none"
                  /\ Len(TblNext(self)) = Len(t) - Cardinality(index)
                  /\ Removed(self, t, Named(index, Len(t)))
             ELSE /\ last'.exc = "IndexError"
                  /\ UNCHANGED <<heap, ref>> ]_vars

\* C8 amended: as many fewer as there are distinct rows named, an index i
\* and the index i - length naming the same row.
C8_Remove ==
    [][ last'.op = "remove" =>
          LET self == last'.arg.self
              index == last'.arg.index
              t == TblNow(self)
          IN IF AllInRange(index, Len(t))
             THEN /\ last'.exc = "none"
                  /\ Len(TblNext(self)) = Len(t) - Cardinality(Named(index, Len(t)))
                  /\ Removed(self, t, Named(index, Len(t)))
             ELSE /\ last'.exc = "IndexError"
                  /\ UNCHANGED <<heap, ref>> ]_vars

C8_Witness ==
    /\ last.op = "remove" /\ last.exc = "none"
    /\ last.arg.index = {0, -1}
    /\ Len(TblNow("group")) = 1
    /\ TblNow("group")[1][1] = 500

\* C9: no two of the client's objects share a buffer.
C9_NoAlias ==
    \A s, t \in Slots :
        (s # t /\ ref[s].cls # "None" /\ ref[t].cls # "None") => ref[s].buf # ref[t].buf

C9_Witness ==
    /\ \A s \in Slots : ref[s].cls # "None"
    /\ last.op = "getitem" /\ last.exc = "none" /\ last.arg.type = "int"
    /\ TblNow("item") # TblNow("arr")

====
